---- MODULE Spec2Model ----
(***************************************************************************)
(* Model of Pi/gardener.py: a BLE peripheral that exports one GATT service *)
(* (GardenerService) with one characteristic (WaterPlantsCharacteristic)   *)
(* and one descriptor (CharacteristicUserDescriptionDescriptor), registers *)
(* an agent, an advertisement and the GATT application with BlueZ over     *)
(* D-Bus, and then serves ReadValue/WriteValue calls from the GLib loop.   *)
(*                                                                         *)
(* Byte sequences are sequences of integers 0..255, Python str objects are *)
(* sequences of code points, and Python objects whose type matters to the  *)
(* code (str, Enum member, function, list) carry a pytype tag.             *)
(***************************************************************************)
EXTENDS Integers, Sequences, FiniteSets, TLC

\* ------------------------------------------------------------------ bounds
\* longest byte sequence a client writes, besides the named commands below
MaxLen == 2

\* ------------------------------------------------------- python primitives
Str(chars) == [pytype |-> "str", chars |-> chars]

\* code points of the three State values
ON_chars == <<79, 78>>
OFF_chars == <<79, 70, 70>>
UNKNOWN_chars == <<85, 78, 75, 78, 79, 87, 78>>

\* class State(Enum): the members are Enum objects, not str objects
State == [on |-> [pytype |-> "State", name |-> "on", value |-> Str(ON_chars)],
          off |-> [pytype |-> "State", name |-> "off", value |-> Str(OFF_chars)],
          unknown |-> [pytype |-> "State", name |-> "unknown", value |-> Str(UNKNOWN_chars)]]

\* State.has_value(value): value in cls._value2member_map_
has_value(chars) == chars \in {State.on.value.chars, State.off.value.chars, State.unknown.value.chars}

\* str.encode("utf8") of one code point
Utf8EncodeChar(cp) ==
    IF cp < 128 THEN <<cp>>
    ELSE IF cp < 2048 THEN <<192 + (cp \div 64), 128 + (cp % 64)>>
    ELSE IF cp < 65536 THEN <<224 + (cp \div 4096), 128 + ((cp \div 64) % 64), 128 + (cp % 64)>>
    ELSE <<240 + (cp \div 262144), 128 + ((cp \div 4096) % 64),
           128 + ((cp \div 64) % 64), 128 + (cp % 64)>>

RECURSIVE Utf8Encode(_)
Utf8Encode(chars) ==
    IF chars = <<>> THEN <<>>
    ELSE Utf8EncodeChar(Head(chars)) \o Utf8Encode(Tail(chars))

IsCont(b) == b >= 128 /\ b <= 191

\* bytes.decode("utf-8"), strict: [ok |-> FALSE] stands for UnicodeDecodeError
RECURSIVE Utf8Decode(_)
Utf8Decode(bs) ==
    IF bs = <<>> THEN [ok |-> TRUE, chars |-> <<>>]
    ELSE LET b1 == bs[1]
             n == Len(bs)
             width == IF b1 < 128 THEN 1
                      ELSE IF b1 >= 194 /\ b1 <= 223 THEN 2
                      ELSE IF b1 >= 224 /\ b1 <= 239 THEN 3
                      ELSE IF b1 >= 240 /\ b1 <= 244 THEN 4
                      ELSE 0
             wellFormed ==
                 /\ width > 0
                 /\ n >= width
                 /\ \A i \in 2..width : IsCont(bs[i])
                 /\ (b1 = 224 => bs[2] >= 160)
                 /\ (b1 = 237 => bs[2] <= 159)
                 /\ (b1 = 240 => bs[2] >= 144)
                 /\ (b1 = 244 => bs[2] <= 143)
             cp == IF width = 1 THEN b1
                   ELSE IF width = 2 THEN (b1 - 192) * 64 + (bs[2] - 128)
                   ELSE IF width = 3 THEN (b1 - 224) * 4096 + (bs[2] - 128) * 64 + (bs[3] - 128)
                   ELSE (b1 - 240) * 262144 + (bs[2] - 128) * 4096
                        + (bs[3] - 128) * 64 + (bs[4] - 128)
         IN IF ~wellFormed THEN [ok |-> FALSE, chars |-> <<>>]
            ELSE LET rest == Utf8Decode(SubSeq(bs, width + 1, n))
                 IN IF rest.ok THEN [ok |-> TRUE, chars |-> <<cp>> \o rest.chars]
                    ELSE [ok |-> FALSE, chars |-> <<>>]

\* bytearray(source, encoding="utf8"): TypeError ("encoding without a string
\* argument") unless source is a str
ByteArray(source) ==
    IF source.pytype = "str"
    THEN [raised |-> "None", bytes |-> Utf8Encode(source.chars)]
    ELSE [raised |-> "TypeError", bytes |-> <<>>]

\* calling an object: a function is called, anything else is a TypeError
\* ("'list' object is not callable")
Callable(obj) == obj.pytype = "function"


\* ------------------------------------------------------------- the inputs
\* bytes the modelled clients combine freely: a UTF-8 lead byte (0xC3) and a
\* continuation byte (0xA9)
Bytes == {195, 169}

RECURSIVE SeqsUpTo(_)
SeqsUpTo(n) ==
    IF n = 0 THEN {<<>>}
    ELSE LET shorter == SeqsUpTo(n - 1)
         IN shorter \cup {Append(s, b) : s \in {t \in shorter : Len(t) = n - 1}, b \in Bytes}

\* values a client writes: the three commands, a byte that is never valid
\* UTF-8, and every sequence over Bytes of at most MaxLen bytes
WriteValues ==
    {Utf8Encode(ON_chars), Utf8Encode(OFF_chars), Utf8Encode(UNKNOWN_chars), <<255>>}
        \cup SeqsUpTo(MaxLen)

\* the options dictionary of a call, as a set of <<key, value>> pairs
Options == {{}, {<<"offset", 1>>}}

\* ------------------------------------------------------------------ state
VARIABLES
    pc,           \* position of main()
    gatt_manager, \* result of find_gatt_manager(bus): "unset", "None" or a path
    mainloop,     \* the global run-loop handle: "None" or "MainLoop"
    loop,         \* the GLib loop: "idle", "running" or "stopped"
    issued,       \* D-Bus requests sent to BlueZ, in order
    advReg,       \* RegisterAdvertisement: "unrequested", "pending", "ok", "failed"
    appReg,       \* RegisterApplication: "unrequested", "pending", "ok", "failed"
    invoked,      \* registration callbacks that have run
    delivered,    \* registration replies the loop has delivered, in order
    log,          \* records written to the logger: [level, msg]
    objects,      \* exported attribute objects by path
    last          \* the last ReadValue/WriteValue dispatched, and its outcome

vars == <<pc, gatt_manager, mainloop, loop, issued, advReg, appReg, invoked, delivered,
          log, objects, last>>

Log(level, msg) == [level |-> level, msg |-> msg]

\* ------------------------------------------------------ the attribute tree
AppPath == <<>>
Path(parent, kind, index) == Append(parent, <<kind, index>>)

Node(kind, uuid, flags, parent) ==
    [kind |-> kind, uuid |-> uuid, flags |-> flags, parent |-> parent,
     children |-> <<>>, value |-> <<>>, writable |-> FALSE]

\* Application(bus): the root, owning no service yet
Application_init(objs) == (AppPath :> Node("Application", "", {}, {})) @@ objs

\* application.add_service(service): append to the owned sequence
add_service(objs, service) ==
    [objs EXCEPT ![AppPath].children = Append(@, service),
                 ![service].parent = @ \cup {AppPath}]

\* Service.__init__(bus, index, uuid, primary)
Service_init(objs, index, uuid) ==
    (Path(AppPath, "service", index) :> Node("Service", uuid, {}, {})) @@ objs

\* service.add_characteristic(characteristic)
add_characteristic(objs, service, characteristic) ==
    [objs EXCEPT ![service].children = Append(@, characteristic)]

\* Characteristic.__init__(bus, index, uuid, flags, service)
Characteristic_init(objs, index, uuid, flags, service) ==
    (Path(service, "char", index) :> Node("Characteristic", uuid, flags, {service})) @@ objs

\* characteristic.add_descriptor(descriptor)
add_descriptor(objs, characteristic, descriptor) ==
    [objs EXCEPT ![characteristic].children = Append(@, descriptor)]

\* Descriptor.__init__(bus, index, uuid, flags, characteristic); writable is
\* derived from the flags
Descriptor_init(objs, index, uuid, flags, characteristic) ==
    (Path(characteristic, "desc", index) :>
        [Node("Descriptor", uuid, flags, {characteristic}) EXCEPT !.writable = "write" \in flags])
    @@ objs

GARDENER_SVC_UUID == "a0445a21-158f-4ca8-840d-6ec56ca58962"
WaterPlants_uuid == "7e709c77-1844-46e7-8fd0-27b0b2382ee8"
CUD_UUID == "2901"

\* WaterPlantsCharacteristic.description:
\* b"Get/set machine power state {'ON', 'OFF', 'UNKNOWN'}"
description ==
    <<71, 101, 116, 47, 115, 101, 116, 32, 109, 97, 99, 104, 105, 110, 101, 32,
      112, 111, 119, 101, 114, 32, 115, 116, 97, 116, 101, 32, 123, 39, 79, 78,
      39, 44, 32, 39, 79, 70, 70, 39, 44, 32, 39, 85, 78, 75, 78, 79, 87, 78,
      39, 125>>

\* array.array("B", b).tolist(): the list of the bytes' integer values
ToList(b) == [i \in 1..Len(b) |-> b[i] % 256]

\* CharacteristicUserDescriptionDescriptor.__init__(bus, index, characteristic):
\* the value is the characteristic's description, the flags are ["read"]
CharacteristicUserDescriptionDescriptor_init(objs, index, characteristic) ==
    LET made == Descriptor_init(objs, index, CUD_UUID, {"read"}, characteristic)
    IN [made EXCEPT ![Path(characteristic, "desc", index)].value = ToList(description)]

\* WaterPlantsCharacteristic.__init__(bus, index, service)
WaterPlantsCharacteristic_init(objs, index, service) ==
    LET self == Path(service, "char", index)
        made == Characteristic_init(objs, index, WaterPlants_uuid,
                                    {"encrypt-read", "encrypt-write"}, service)
        valued == [made EXCEPT ![self].value = <<255>>]
        withDesc == CharacteristicUserDescriptionDescriptor_init(valued, 1, self)
    IN add_descriptor(withDesc, self, Path(self, "desc", 1))

\* mutant: the service registers its characteristic twice
GardenerService_init_Twice(objs, index) ==
    LET self == Path(AppPath, "service", index)
        made == Service_init(objs, index, GARDENER_SVC_UUID)
        withChrc == WaterPlantsCharacteristic_init(made, 0, self)
    IN add_characteristic(add_characteristic(withChrc, self, Path(self, "char", 0)),
                          self, Path(self, "char", 0))

\* GardenerService.__init__(bus, index)
GardenerService_init(objs, index) ==
    LET self == Path(AppPath, "service", index)
        made == Service_init(objs, index, GARDENER_SVC_UUID)
        withChrc == WaterPlantsCharacteristic_init(made, 0, self)
    IN add_characteristic(withChrc, self, Path(self, "char", 0))

\* the objects main() builds
ServicePath == Path(AppPath, "service", 2)
ChrcPath == Path(ServicePath, "char", 0)
DescPath == Path(ChrcPath, "desc", 1)


Built == ChrcPath \in DOMAIN objects /\ DescPath \in DOMAIN objects

NoCall == [target |-> "none", op |-> "none", value |-> <<>>, options |-> {},
           raised |-> "None", handled |-> {}, ret |-> <<>>]

Call(target, op, value, options, raised, handled, ret) ==
    [target |-> target, op |-> op, value |-> value, options |-> options,
     raised |-> raised, handled |-> handled, ret |-> ret]

\* ------------------------------------------------------------------- Init
\* the process as it starts main(): mainloop = None, nothing built or sent
Init ==
    /\ pc = "main"
    /\ gatt_manager = "unset"
    /\ mainloop = "None"
    /\ loop = "idle"
    /\ issued = <<>>
    /\ advReg = "unrequested"
    /\ appReg = "unrequested"
    /\ invoked = {}
    /\ delivered = <<>>
    /\ log = {}
    /\ objects = <<>>
    /\ last = NoCall

\* ------------------------------------------------- registration callbacks
\* the handlers main() passes to RegisterAdvertisement
AdvertisementHandlers ==
    [reply_handler |-> [pytype |-> "function", name |-> "register_advertisement_callback"],
     error_handler |-> [pytype |-> "function", name |-> "register_advertisement_error_callback"]]

\* the handlers main() passes to RegisterApplication: the error handler is a
\* one-element list holding the function
ApplicationHandlers ==
    [reply_handler |-> [pytype |-> "function", name |-> "register_application_callback"],
     error_handler |-> [pytype |-> "list", name |-> "[register_application_error_callback]"]]

\* mainloop.quit(): stops the loop the global names; on None it raises
\* AttributeError, which the dispatching loop prints and drops
mainloop_quit == loop' = IF mainloop = "MainLoop" THEN "stopped" ELSE loop

\* mutant: the success callback stops the loop like the error callback
register_application_callback_Quit ==
    /\ log' = log \cup {Log("INFO", "GATT application registered")}
    /\ invoked' = invoked \cup {"register_application_callback"}
    /\ mainloop_quit

register_application_callback ==
    /\ log' = log \cup {Log("INFO", "GATT application registered")}
    /\ invoked' = invoked \cup {"register_application_callback"}
    /\ UNCHANGED loop

register_application_error_callback ==
    /\ log' = log \cup {Log("CRITICAL", "Failed to register application")}
    /\ invoked' = invoked \cup {"register_application_error_callback"}
    /\ mainloop_quit

register_advertisement_callback ==
    /\ log' = log \cup {Log("INFO", "Advertisement registered")}
    /\ invoked' = invoked \cup {"register_advertisement_callback"}
    /\ UNCHANGED loop

\* mutant: the error callback logs and forgets mainloop.quit()
register_advertisement_error_callback_NoQuit ==
    /\ log' = log \cup {Log("CRITICAL", "Failed to register advertisement")}
    /\ invoked' = invoked \cup {"register_advertisement_error_callback"}
    /\ UNCHANGED loop

\* mutant: the error callback quits only once the application is registered
register_advertisement_error_callback_QuitIfRegistered ==
    /\ log' = log \cup {Log("CRITICAL", "Failed to register advertisement")}
    /\ invoked' = invoked \cup {"register_advertisement_error_callback"}
    /\ IF "register_application_callback" \in invoked THEN mainloop_quit ELSE UNCHANGED loop

register_advertisement_error_callback ==
    /\ log' = log \cup {Log("CRITICAL", "Failed to register advertisement")}
    /\ invoked' = invoked \cup {"register_advertisement_error_callback"}
    /\ mainloop_quit

\* the body a handler object names
HandlerBody(handler) ==
    CASE handler.name = "register_advertisement_callback" -> register_advertisement_callback
      [] handler.name = "register_advertisement_error_callback" -> register_advertisement_error_callback
      [] handler.name = "register_application_callback" -> register_application_callback
      [] OTHER -> register_application_error_callback

\* the bus calls handler(...) from the loop; a handler that is not callable
\* raises TypeError inside the dispatch, which is printed and dropped
Invoke(handler) ==
    IF Callable(handler) THEN HandlerBody(handler)
    ELSE UNCHANGED <<log, invoked, loop>>

\* ------------------------------------------------------------------ main()
\* mutant: the missing adapter is logged and main() goes on
MainFindGattManager_NoReturn ==
    /\ pc = "main"
    /\ \E found \in {"None", "/org/bluez/hci0"} :
        /\ gatt_manager' = found
        /\ IF found = "None"
           THEN log' = log \cup {Log("CRITICAL", "GattManager1 interface not found")}
           ELSE UNCHANGED log
        /\ pc' = "power_on"
    /\ UNCHANGED <<mainloop, loop, issued, advReg, appReg, invoked, objects, last, delivered>>

\* lines 190-199: look the adapter up; without it log and return
MainFindGattManager ==
    /\ pc = "main"
    /\ \E found \in {"None", "/org/bluez/hci0"} :
        /\ gatt_manager' = found
        /\ IF found = "None"
           THEN /\ log' = log \cup {Log("CRITICAL", "GattManager1 interface not found")}
                /\ pc' = "returned"
           ELSE /\ pc' = "power_on"
                /\ UNCHANGED log
    /\ UNCHANGED <<mainloop, loop, issued, advReg, appReg, invoked, objects, last, delivered>>

\* lines 201-204: Adapter1.Powered = True
MainAdapterPowerOn ==
    /\ pc = "power_on"
    /\ issued' = Append(issued, "Set Powered")
    /\ pc' = "create_loop"
    /\ UNCHANGED <<gatt_manager, mainloop, loop, advReg, appReg, invoked, log, objects, last, delivered>>

\* mutant: without "global mainloop" the loop is bound to a local name
MainCreateLoop_Local ==
    /\ pc = "create_loop"
    /\ pc' = "register_agent"
    /\ UNCHANGED <<gatt_manager, mainloop, loop, issued, advReg, appReg, invoked, log, objects, last, delivered>>

\* lines 206-208: mainloop = MainLoop()
MainCreateLoop ==
    /\ pc = "create_loop"
    /\ mainloop' = "MainLoop"
    /\ pc' = "register_agent"
    /\ UNCHANGED <<gatt_manager, loop, issued, advReg, appReg, invoked, log, objects, last, delivered>>

\* lines 210-212: agent_manager.RegisterAgent(AGENT_PATH, "NoInputNoOutput")
MainRegisterAgent ==
    /\ pc = "register_agent"
    /\ issued' = Append(issued, "RegisterAgent")
    /\ pc' = "register_advertisement"
    /\ UNCHANGED <<gatt_manager, mainloop, loop, advReg, appReg, invoked, log, objects, last, delivered>>

\* lines 214-222: asynchronous RegisterAdvertisement
MainRegisterAdvertisement ==
    /\ pc = "register_advertisement"
    /\ log' = log \cup {Log("INFO", "Registering advertisment...")}
    /\ issued' = Append(issued, "RegisterAdvertisement")
    /\ advReg' = "pending"
    /\ pc' = "register_application"
    /\ UNCHANGED <<gatt_manager, mainloop, loop, appReg, invoked, objects, last, delivered>>

\* lines 224-233: build the attribute tree, asynchronous RegisterApplication
MainRegisterApplication ==
    /\ pc = "register_application"
    /\ log' = log \cup {Log("INFO", "Registering GATT application...")}
    /\ objects' = add_service(GardenerService_init(Application_init(objects), 2), ServicePath)
    /\ issued' = Append(issued, "RegisterApplication")
    /\ appReg' = "pending"
    /\ pc' = "request_default_agent"
    /\ UNCHANGED <<gatt_manager, mainloop, loop, advReg, invoked, last, delivered>>

\* line 235: agent_manager.RequestDefaultAgent(AGENT_PATH)
MainRequestDefaultAgent ==
    /\ pc = "request_default_agent"
    /\ issued' = Append(issued, "RequestDefaultAgent")
    /\ pc' = "run"
    /\ UNCHANGED <<gatt_manager, mainloop, loop, advReg, appReg, invoked, log, objects, last, delivered>>

\* mutant: the loop is run before the default agent is requested
MainRunLoop_Early ==
    /\ pc \in {"request_default_agent", "run"}
    /\ loop' = "running"
    /\ pc' = "running"
    /\ UNCHANGED <<gatt_manager, mainloop, issued, advReg, appReg, invoked, log, objects, last, delivered>>

\* line 237: mainloop.run() starts dispatching
MainRunLoop ==
    /\ pc = "run"
    /\ loop' = "running"
    /\ pc' = "running"
    /\ UNCHANGED <<gatt_manager, mainloop, issued, advReg, appReg, invoked, log, objects, last, delivered>>

\* mutant: a stopped loop makes main() register the advertisement again
MainReturn_Retry ==
    /\ pc = "running"
    /\ loop = "stopped"
    /\ issued' = Append(issued, "RegisterAdvertisement")
    /\ pc' = "returned"
    /\ UNCHANGED <<gatt_manager, mainloop, loop, advReg, appReg, invoked, log, objects, last, delivered>>

\* mutant: line 238 switched on, the advertisement is unregistered on the way out
MainReturn_Unregister ==
    /\ pc = "running"
    /\ loop = "stopped"
    /\ issued' = Append(issued, "UnregisterAdvertisement")
    /\ advReg' = "unrequested"
    /\ pc' = "returned"
    /\ UNCHANGED <<gatt_manager, mainloop, loop, appReg, invoked, log, objects, last, delivered>>

\* line 237 returns once the loop was quit; main() ends (lines 238-239 are
\* comments: nothing is unregistered)
MainReturn ==
    /\ pc = "running"
    /\ loop = "stopped"
    /\ pc' = "returned"
    /\ UNCHANGED <<gatt_manager, mainloop, loop, issued, advReg, appReg, invoked, log, objects, last, delivered>>

\* the process is terminated from outside while the loop runs
ExternalTermination ==
    /\ pc = "running"
    /\ loop = "running"
    /\ pc' = "killed"
    /\ loop' = "stopped"
    /\ UNCHANGED <<gatt_manager, mainloop, issued, advReg, appReg, invoked, log, objects, last, delivered>>

\* ------------------------------------------ replies delivered by the loop
Dispatching == pc = "running" /\ loop = "running"

AdvertisementReplyOk ==
    /\ Dispatching
    /\ advReg = "pending"
    /\ advReg' = "ok"
    /\ Invoke(AdvertisementHandlers.reply_handler)
    /\ delivered' = Append(delivered, "advertisement")
    /\ UNCHANGED <<pc, gatt_manager, mainloop, issued, appReg, objects, last>>

AdvertisementReplyError ==
    /\ Dispatching
    /\ advReg = "pending"
    /\ advReg' = "failed"
    /\ Invoke(AdvertisementHandlers.error_handler)
    /\ delivered' = Append(delivered, "advertisement")
    /\ UNCHANGED <<pc, gatt_manager, mainloop, issued, appReg, objects, last>>

ApplicationReplyOk ==
    /\ Dispatching
    /\ appReg = "pending"
    /\ appReg' = "ok"
    /\ Invoke(ApplicationHandlers.reply_handler)
    /\ delivered' = Append(delivered, "application")
    /\ UNCHANGED <<pc, gatt_manager, mainloop, issued, advReg, objects, last>>

ApplicationReplyError ==
    /\ Dispatching
    /\ appReg = "pending"
    /\ appReg' = "failed"
    /\ Invoke(ApplicationHandlers.error_handler)
    /\ delivered' = Append(delivered, "application")
    /\ UNCHANGED <<pc, gatt_manager, mainloop, issued, advReg, objects, last>>


\* ------------------------------------------------- attribute value handlers
\* Each handler maps the object (self) and the call's arguments to its outcome:
\* the object's value afterwards, the exception that leaves the handler
\* ("None" when it returns), the exceptions caught inside it, the returned
\* bytes and the records logged.
Outcome(value, raised, handled, ret, logged) ==
    [value |-> value, raised |-> raised, handled |-> handled, ret |-> ret,
     logged |-> logged]

\* WaterPlantsCharacteristic.ReadValue(self, options)
WaterPlantsCharacteristic_ReadValue(self, options) ==
    LET debug == Log("DEBUG", "WaterPlantsCharacteristic read")
        off == ByteArray(State.off)
        error == Log("ERROR", "Error getting status")
        unknown == ByteArray(State.unknown)
    IN IF off.raised = "None"
       THEN Outcome(off.bytes, "None", {}, off.bytes, {debug})
       ELSE IF unknown.raised = "None"
            THEN Outcome(unknown.bytes, "None", {off.raised}, unknown.bytes, {debug, error})
            ELSE Outcome(self.value, unknown.raised, {off.raised}, <<>>, {debug, error})

\* mutant: the validation of lines 96-106 switched on
WaterPlantsCharacteristic_WriteValue_Validating(self, value, options) ==
    LET debug == Log("DEBUG", "WaterPlantsCharacteristic write")
        cmd == Utf8Decode(value)
        water == Log("DEBUG", "I'm gonna water the plants")
        invalid == Log("INFO", "invalid state written")
    IN IF ~cmd.ok
       THEN Outcome(self.value, "UnicodeDecodeError", {}, <<>>, {debug})
       ELSE IF ~has_value(cmd.chars)
            THEN Outcome(self.value, "NotPermitted", {}, <<>>, {debug, invalid})
            ELSE Outcome(value, "None", {}, <<>>, {debug, water})

\* mutant: the write honours options["offset"] and stores the tail of the value
WaterPlantsCharacteristic_WriteValue_Offset(self, value, options) ==
    LET debug == Log("DEBUG", "WaterPlantsCharacteristic write")
        cmd == Utf8Decode(value)
        water == Log("DEBUG", "I'm gonna water the plants")
        stored == IF <<"offset", 1>> \in options THEN SubSeq(value, 2, Len(value)) ELSE value
    IN IF ~cmd.ok
       THEN Outcome(self.value, "UnicodeDecodeError", {}, <<>>, {debug})
       ELSE Outcome(stored, "None", {}, <<>>, {debug, water})

\* mutant: self.value = value moved above the decode
WaterPlantsCharacteristic_WriteValue_StoreFirst(self, value, options) ==
    LET debug == Log("DEBUG", "WaterPlantsCharacteristic write")
        cmd == Utf8Decode(value)
        water == Log("DEBUG", "I'm gonna water the plants")
    IN IF ~cmd.ok
       THEN Outcome(value, "UnicodeDecodeError", {}, <<>>, {debug})
       ELSE Outcome(value, "None", {}, <<>>, {debug, water})

\* WaterPlantsCharacteristic.WriteValue(self, value, options)
WaterPlantsCharacteristic_WriteValue(self, value, options) ==
    LET debug == Log("DEBUG", "WaterPlantsCharacteristic write")
        cmd == Utf8Decode(value)
        water == Log("DEBUG", "I'm gonna water the plants")
    IN IF ~cmd.ok
       THEN Outcome(self.value, "UnicodeDecodeError", {}, <<>>, {debug})
       ELSE Outcome(value, "None", {}, <<>>, {debug, water})

\* CharacteristicUserDescriptionDescriptor.ReadValue(self, options)
CharacteristicUserDescriptionDescriptor_ReadValue(self, options) ==
    Outcome(self.value, "None", {}, self.value, {})

\* mutant: the descriptor stores the value without testing self.writable
CharacteristicUserDescriptionDescriptor_WriteValue_Unchecked(self, value, options) ==
    Outcome(value, "None", {}, <<>>, {})

\* CharacteristicUserDescriptionDescriptor.WriteValue(self, value, options)
CharacteristicUserDescriptionDescriptor_WriteValue(self, value, options) ==
    IF ~self.writable
    THEN Outcome(self.value, "NotPermitted", {}, <<>>, {})
    ELSE Outcome(value, "None", {}, <<>>, {})

\* the loop dispatches one inbound call to an exported object
Apply(path, target, op, value, options, out) ==
    /\ objects' = [objects EXCEPT ![path].value = out.value]
    /\ log' = log \cup out.logged
    /\ last' = Call(target, op, value, options, out.raised, out.handled, out.ret)
    /\ UNCHANGED <<pc, gatt_manager, mainloop, loop, issued, advReg, appReg, invoked, delivered>>

WaterPlantsReadValue ==
    /\ Dispatching
    /\ Built
    /\ \E options \in Options :
        Apply(ChrcPath, "WaterPlants", "ReadValue", <<>>, options,
              WaterPlantsCharacteristic_ReadValue(objects[ChrcPath], options))

\* mutant: the descriptor's value is the same list object as the characteristic's
WaterPlantsWriteValue_Alias ==
    /\ Dispatching
    /\ Built
    /\ \E value \in WriteValues, options \in Options :
        LET out == WaterPlantsCharacteristic_WriteValue(objects[ChrcPath], value, options)
        IN /\ objects' = [objects EXCEPT ![ChrcPath].value = out.value,
                                         ![DescPath].value = out.value]
           /\ log' = log \cup out.logged
           /\ last' = Call("WaterPlants", "WriteValue", value, options, out.raised,
                           out.handled, out.ret)
           /\ UNCHANGED <<pc, gatt_manager, mainloop, loop, issued, advReg, appReg, invoked,
                          delivered>>

WaterPlantsWriteValue ==
    /\ Dispatching
    /\ Built
    /\ \E value \in WriteValues, options \in Options :
        Apply(ChrcPath, "WaterPlants", "WriteValue", value, options,
              WaterPlantsCharacteristic_WriteValue(objects[ChrcPath], value, options))

DescriptorReadValue ==
    /\ Dispatching
    /\ Built
    /\ \E options \in Options :
        Apply(DescPath, "UserDescription", "ReadValue", <<>>, options,
              CharacteristicUserDescriptionDescriptor_ReadValue(objects[DescPath], options))

DescriptorWriteValue ==
    /\ Dispatching
    /\ Built
    /\ \E value \in WriteValues, options \in Options :
        Apply(DescPath, "UserDescription", "WriteValue", value, options,
              CharacteristicUserDescriptionDescriptor_WriteValue(objects[DescPath], value, options))

Dispatch ==
    \/ WaterPlantsReadValue
    \/ WaterPlantsWriteValue
    \/ DescriptorReadValue
    \/ DescriptorWriteValue

\* ------------------------------------------------------------ specification
Next ==
    \/ MainFindGattManager
    \/ MainAdapterPowerOn
    \/ MainCreateLoop
    \/ MainRegisterAgent
    \/ MainRegisterAdvertisement
    \/ MainRegisterApplication
    \/ MainRequestDefaultAgent
    \/ MainRunLoop
    \/ MainReturn
    \/ ExternalTermination
    \/ AdvertisementReplyOk
    \/ AdvertisementReplyError
    \/ ApplicationReplyOk
    \/ ApplicationReplyError
    \/ WaterPlantsReadValue
    \/ WaterPlantsWriteValue
    \/ DescriptorReadValue
    \/ DescriptorWriteValue

Spec == Init /\ [][Next]_vars

\* ------------------------------------------------------------- shorthands
chrcValue == objects[ChrcPath].value
descValue == objects[DescPath].value

TypeOK ==
    /\ pc \in {"main", "power_on", "create_loop", "register_agent", "register_advertisement",
               "register_application", "request_default_agent", "run", "running",
               "returned", "killed"}
    /\ gatt_manager \in {"unset", "None", "/org/bluez/hci0"}
    /\ mainloop \in {"None", "MainLoop"}
    /\ loop \in {"idle", "running", "stopped"}
    /\ advReg \in {"unrequested", "pending", "ok", "failed"}
    /\ appReg \in {"unrequested", "pending", "ok", "failed"}


\* ----------------------------------------------------------------- claims
OFF_bytes == Utf8Encode(OFF_chars)
UNKNOWN_bytes == Utf8Encode(UNKNOWN_chars)

WaterPlantsRead == last.target = "WaterPlants" /\ last.op = "ReadValue"
WaterPlantsWrite == last.target = "WaterPlants" /\ last.op = "WriteValue"
DescriptorRead == last.target = "UserDescription" /\ last.op = "ReadValue"
DescriptorWrite == last.target = "UserDescription" /\ last.op = "WriteValue"

\* C1: every ReadValue on the WaterPlants characteristic returns bytes that
\* decode to "OFF" and leaves the stored value equal to the returned bytes.
C1_ReadReturnsOff ==
    WaterPlantsRead =>
        /\ last.raised = "None"
        /\ Utf8Decode(last.ret) = [ok |-> TRUE, chars |-> OFF_chars]
        /\ chrcValue = last.ret

\* C2: a ReadValue that follows a WriteValue(v) on the WaterPlants
\* characteristic, whatever v was, returns "OFF" and stores the OFF encoding.
C2_WriteThenReadIsOff ==
    [][(WaterPlantsWrite /\ WaterPlantsReadValue) =>
          /\ last'.raised = "None"
          /\ last'.ret = OFF_bytes
          /\ chrcValue' = OFF_bytes]_vars

\* C3 as stated: WriteValue on the WaterPlants characteristic never rejects a
\* write and leaves the stored value equal to the input bytes.
C3_WriteAlwaysAccepted ==
    WaterPlantsWrite => (last.raised = "None" /\ chrcValue = last.value)

\* C3 as amended: WriteValue accepts exactly the inputs that decode as UTF-8,
\* whether or not they name a State, and then stores the raw input bytes; the
\* only rejection is the UnicodeDecodeError of an input that is not UTF-8.
C3_WriteAcceptsUtf8 ==
    WaterPlantsWrite =>
        /\ last.raised \in {"None", "UnicodeDecodeError"}
        /\ (last.raised = "None" <=> Utf8Decode(last.value).ok)
        /\ (last.raised = "None" => chrcValue = last.value)

\* a write of UTF-8 text that is none of ON, OFF, UNKNOWN was accepted
C3_Witness ==
    /\ WaterPlantsWrite
    /\ last.raised = "None"
    /\ last.value # <<>>
    /\ ~has_value(Utf8Decode(last.value).chars)
    /\ chrcValue = last.value

C5_AdvertisementErrorStopsLoop ==
    advReg = "failed" =>
        /\ "register_advertisement_error_callback" \in invoked
        /\ loop = "stopped"
        /\ ~ENABLED Dispatch

\* the advertisement failed while the application registration was pending,
\* after calls had been served
C5_Witness ==
    /\ advReg = "failed"
    /\ appReg = "pending"
    /\ last.op # "none"
    /\ loop = "stopped"

\* C6: once the application registration reply was an error, the application
\* error callback has run, has logged at critical severity and the loop is
\* stopped.
C6_ApplicationErrorStopsLoop ==
    appReg = "failed" =>
        /\ "register_application_error_callback" \in invoked
        /\ Log("CRITICAL", "Failed to register application") \in log
        /\ loop = "stopped"

\* C7: without GattManager1 main() returns with a critical log line, having
\* sent no request and never entered the loop; with it, main() goes on to
\* power the adapter on.
C7_GattManagerGate ==
    /\ gatt_manager = "None" =>
          /\ pc = "returned"
          /\ Log("CRITICAL", "GattManager1 interface not found") \in log
          /\ issued = <<>>
          /\ loop = "idle"
          /\ advReg = "unrequested"
          /\ appReg = "unrequested"
    /\ gatt_manager = "/org/bluez/hci0" =>
          /\ Log("CRITICAL", "GattManager1 interface not found") \notin log
          /\ pc = "power_on" \/ (issued # <<>> /\ issued[1] = "Set Powered")

C7_Witness ==
    /\ gatt_manager = "None"
    /\ pc = "returned"
    /\ Log("CRITICAL", "GattManager1 interface not found") \in log

\* the bootstrap requests in the order main() sends them
BootstrapOrder ==
    <<"Set Powered", "RegisterAgent", "RegisterAdvertisement", "RegisterApplication",
      "RequestDefaultAgent">>

IsPrefix(s, t) == Len(s) <= Len(t) /\ s = SubSeq(t, 1, Len(s))

\* C8: the requests sent are always a prefix of power-on, agent registration,
\* advertisement registration, application registration, default-agent
\* request (so each is sent at most once, in that order); the loop is entered
\* only after all five; no registration callback and no ReadValue/WriteValue
\* runs before the loop is entered.
C8_BootstrapOrder ==
    /\ IsPrefix(issued, BootstrapOrder)
    /\ (loop # "idle" => issued = BootstrapOrder)
    /\ (pc \in {"main", "power_on", "create_loop", "register_agent", "register_advertisement",
                "register_application", "request_default_agent", "run"} => loop = "idle")
    /\ (loop = "idle" =>
          /\ invoked = {}
          /\ last = NoCall
          /\ advReg \in {"unrequested", "pending"}
          /\ appReg \in {"unrequested", "pending"})

C8_Witness ==
    /\ gatt_manager = "/org/bluez/hci0"
    /\ loop = "running"
    /\ issued = BootstrapOrder
    /\ invoked # {}
    /\ last # NoCall

\* C9: when encoding the OFF state failed inside ReadValue, ReadValue returns
\* the encoding of "UNKNOWN", stores it, and raises nothing.
C9_EncodingFailureRecovered ==
    (WaterPlantsRead /\ last.handled # {}) =>
        /\ last.raised = "None"
        /\ last.ret = UNKNOWN_bytes
        /\ chrcValue = UNKNOWN_bytes

\* C10: once built, the attribute tree is Application -> one Service -> one
\* WaterPlants characteristic -> one User Description descriptor, every
\* non-root attribute has exactly one parent (its owner), and it stays so
\* through every dispatch and callback.
C10_TreeFixed ==
    appReg # "unrequested" =>
        /\ DOMAIN objects = {AppPath, ServicePath, ChrcPath, DescPath}
        /\ objects[AppPath].kind = "Application"
        /\ objects[AppPath].parent = {}
        /\ objects[AppPath].children = <<ServicePath>>
        /\ objects[ServicePath].kind = "Service"
        /\ objects[ServicePath].parent = {AppPath}
        /\ objects[ServicePath].children = <<ChrcPath>>
        /\ objects[ChrcPath].kind = "Characteristic"
        /\ objects[ChrcPath].parent = {ServicePath}
        /\ objects[ChrcPath].children = <<DescPath>>
        /\ objects[DescPath].kind = "Descriptor"
        /\ objects[DescPath].parent = {ChrcPath}
        /\ objects[DescPath].children = <<>>

\* the tree after a write was stored and a registration callback has run
C10_Witness ==
    /\ Built
    /\ WaterPlantsWrite
    /\ last.raised = "None"
    /\ chrcValue = last.value
    /\ invoked # {}


BothHandled == advReg \in {"ok", "failed"} /\ appReg \in {"ok", "failed"}

\* C11: once both registration replies have been handled, in whichever order
\* the loop delivered them, the loop's state is decided by the two results
\* alone: stopped when the advertisement failed, running otherwise.
C11_OrderIndependent ==
    (BothHandled /\ pc # "killed") =>
        /\ Len(delivered) = 2
        /\ loop = (IF advReg = "failed" THEN "stopped" ELSE "running")

\* the application reply was delivered before the advertisement reply
C11_Witness ==
    /\ delivered = <<"application", "advertisement">>
    /\ appReg = "ok"
    /\ advReg = "failed"
    /\ loop = "stopped"

\* C12: while neither registration reply has been an error and nobody ended
\* the process, an entered loop is running and every ReadValue/WriteValue
\* dispatch is possible.
C12_RunningIsSteady ==
    (loop # "idle" /\ advReg # "failed" /\ appReg # "failed" /\ pc # "killed") =>
        /\ pc = "running"
        /\ loop = "running"
        /\ ENABLED WaterPlantsReadValue
        /\ ENABLED WaterPlantsWriteValue
        /\ ENABLED DescriptorReadValue
        /\ ENABLED DescriptorWriteValue

\* both registrations succeeded, both success callbacks ran, calls are served
C12_Witness ==
    /\ advReg = "ok"
    /\ appReg = "ok"
    /\ invoked = {"register_advertisement_callback", "register_application_callback"}
    /\ loop = "running"
    /\ last.op # "none"

AtMostOnce(s) == \A i, j \in 1..Len(s) : s[i] = s[j] => i = j

\* C13: no request is ever sent twice, and once a registration has failed no
\* further request is sent.
C13_NoRetry ==
    [][/\ AtMostOnce(issued')
       /\ (advReg = "failed" \/ appReg = "failed") => issued' = issued]_vars

\* main() has returned after the advertisement failure stopped the loop
C13_Witness ==
    /\ advReg = "failed"
    /\ "register_advertisement_error_callback" \in invoked
    /\ pc = "returned"
    /\ issued = BootstrapOrder

Unregistrations == {"UnregisterAdvertisement", "UnregisterApplication", "UnregisterAgent"}

\* C14: no unregistration request is ever sent, and once the loop has stopped
\* (by a failure callback or from outside) no request is sent and the
\* registrations stay as they were.
C14_AbruptShutdown ==
    [][/\ \A i \in 1..Len(issued') : issued'[i] \notin Unregistrations
       /\ loop = "stopped" => UNCHANGED <<issued, advReg, appReg>>]_vars

\* main() has returned with the application still registered
C14_Witness ==
    /\ pc = "returned"
    /\ loop = "stopped"
    /\ appReg = "ok"
    /\ issued = BootstrapOrder

\* a step that ends with the named call as the last one served: the call
\* itself, or a later step of main() or of a callback
ServedRead == last'.target = "WaterPlants" /\ last'.op = "ReadValue"
ServedWrite == last'.target = "WaterPlants" /\ last'.op = "WriteValue"
ServedDescriptor == last'.target = "UserDescription"

\* C15: whatever options a ReadValue or WriteValue on the WaterPlants
\* characteristic was called with, its result and the value it leaves are
\* those the same call gives, from the same state, with every other options
\* value.
C15_OptionsIgnored ==
    [][/\ ServedRead =>
            \A o \in Options :
                LET out == WaterPlantsCharacteristic_ReadValue(objects[ChrcPath], o)
                IN /\ chrcValue' = out.value
                   /\ last'.ret = out.ret
                   /\ last'.raised = out.raised
       /\ ServedWrite =>
            \A o \in Options :
                LET out == WaterPlantsCharacteristic_WriteValue(objects[ChrcPath], last'.value, o)
                IN /\ chrcValue' = out.value
                   /\ last'.raised = out.raised]_vars

\* a write with a non-empty options dictionary stored its whole value
C15_Witness ==
    /\ WaterPlantsWrite
    /\ last.options = {<<"offset", 1>>}
    /\ last.raised = "None"
    /\ Len(last.value) > 1
    /\ chrcValue = last.value

\* C16: a WriteValue on the WaterPlants characteristic that raises leaves the
\* stored value as it was before the call.
C16_FailedWriteKeepsValue ==
    [][(ServedWrite /\ last'.raised # "None") => chrcValue' = chrcValue]_vars

\* a write of bytes that are not UTF-8 failed and an earlier written value is
\* still stored
C16_Witness ==
    /\ WaterPlantsWrite
    /\ last.raised = "UnicodeDecodeError"
    /\ chrcValue # last.value
    /\ chrcValue = Utf8Encode(ON_chars)

\* C17: ReadValue and WriteValue on the WaterPlants characteristic leave the
\* descriptor's value alone, and ReadValue and WriteValue on the descriptor
\* leave the characteristic's value alone.
C17_IndependentValues ==
    [][/\ (ServedRead \/ ServedWrite) => descValue' = descValue
       /\ ServedDescriptor => chrcValue' = chrcValue]_vars

\* the characteristic holds a written value next to the untouched description
C17_Witness ==
    /\ WaterPlantsWrite
    /\ last.raised = "None"
    /\ chrcValue = Utf8Encode(UNKNOWN_chars)
    /\ descValue = description

\* C18: from the first asynchronous registration request on the global
\* mainloop names a loop, so the loop is there whenever an error callback runs.
C18_LoopHandleValid ==
    /\ (advReg # "unrequested" \/ appReg # "unrequested") => mainloop = "MainLoop"
    /\ (invoked # {} \/ delivered # <<>>) => mainloop = "MainLoop"
    /\ mainloop = "None" => pc \in {"main", "power_on", "create_loop", "returned"}

\* the advertisement error callback ran and stopped the loop it found
C18_Witness ==
    /\ "register_advertisement_error_callback" \in invoked
    /\ mainloop = "MainLoop"
    /\ loop = "stopped"
    /\ delivered = <<"advertisement">>

====
